---- MODULE Spec2Model ----
(***************************************************************************)
(* ai-cli: a command-line client that dispatches a prompt (and optional    *)
(* images) to OpenAI, DeepSeek or Mistral.  The model covers one run of    *)
(* the generate command (parseInputs, getProvider, validateCapabilities,   *)
(* Provider.Generate, formatOutput) and one direct call of                 *)
(* Provider.Generate by a library caller holding a cancellable context     *)
(* (Spec), and one run of the models command or one direct call of         *)
(* ListModels (ModelsSpec).                                                *)
(* Strings are TLA+ strings; HTTP bodies are raw texts with their JSON     *)
(* reading given by ParseJSON.                                             *)
(***************************************************************************)
EXTENDS Integers, Sequences, FiniteSets, TLC

VARIABLES
    mode,           \* "cli": a run of generateCmd; "direct": a caller of Provider.Generate;
                    \* "models": a run of modelsCmd; "list": a caller of ListModels
    pc,             \* position of the run
    flags,          \* the command's flag variables
    env,            \* environment variables after godotenv.Load
    dotenv,         \* whether godotenv.Load found a .env file
    warnings,       \* generateCmd's warnings slice
    inputs,         \* providers.Inputs
    provider,       \* the constructed provider (NoProvider before)
    ctx,            \* the context handed to Generate
    generateCalls,  \* invocations of Provider.Generate
    attempt,        \* Mistral's loop counter
    httpCalls,      \* invocations of http.Client.Do
    requests,       \* the requests handed to http.Client.Do, in order
    outcomes,       \* how each of them ended
    lastErr,        \* Mistral's lastErr
    result,         \* Generate's string result
    err,            \* the error of the stage that ended the run (nil if none)
    stdout,         \* lines printed
    exitErr,        \* what RunE returned
    formatCalls,    \* invocations of formatOutput
    modelsProvider, \* the models command's --provider list
    modelsJson,     \* the models command's --json flag
    idx,            \* position of modelsCmd's loop in modelsProvider
    providerModels, \* modelsCmd's map from provider to its models
    errs,           \* modelsCmd's errs slice
    stderr,         \* lines written by log.Printf
    models          \* what a direct call of ListModels returned

vars == <<mode, pc, flags, env, dotenv, warnings, inputs, provider, ctx,
          generateCalls, attempt, httpCalls, requests, outcomes, lastErr,
          result, err, stdout, exitErr, formatCalls, modelsProvider, modelsJson,
          idx, providerModels, errs, stderr, models>>

\* the state of the models command and of a ListModels call
listVars == <<modelsProvider, modelsJson, idx, providerModels, errs, stderr, models>>

(***************************************************************************)
(* Bounds                                                                  *)
(***************************************************************************)
MaxImages == 2
MaxProviders == 2

(***************************************************************************)
(* Program constants                                                       *)
(***************************************************************************)
openAIBaseURL == "https://api.openai.com/v1"
openAIDefaultTimeout == 30
openAIDefaultTextModel == "gpt-4"
openAIVisionModel == "gpt-4o-mini"

deepseekBaseURL == "https://api.deepseek.com/v1"
deepseekDefaultModel == "deepseek-chat"
deepseekDefaultTimeout == 30

mistralBaseURL == "https://api.mistral.ai/v1"
mistralDefaultModel == "mistral-small-latest"
mistralDefaultTimeout == 30
mistralMaxRetries == 2

StatusOK == 200

FeatureTextGeneration == 0
FeatureVision == 1
FeatureMultiModal == 2

(***************************************************************************)
(* String helpers (strings.HasPrefix, strings.HasSuffix, filepath.Ext,     *)
(* filepath.Base, base64.StdEncoding.EncodeToString, strings.Contains,     *)
(* strings.ToLower, strings.Title)                                         *)
(***************************************************************************)
CharAt(s, i) == SubSeq(s, i, i)

HasPrefix(s, p) == Len(s) >= Len(p) /\ SubSeq(s, 1, Len(p)) = p

HasSuffix(s, x) == Len(s) >= Len(x) /\ SubSeq(s, Len(s) - Len(x) + 1, Len(s)) = x

RECURSIVE ExtFrom(_, _)
ExtFrom(path, i) ==
    IF i < 1 \/ CharAt(path, i) = "/" THEN ""
    ELSE IF CharAt(path, i) = "." THEN SubSeq(path, i, Len(path))
    ELSE ExtFrom(path, i - 1)

Ext(path) == ExtFrom(path, Len(path))

RECURSIVE BaseFrom(_, _)
BaseFrom(path, i) ==
    IF i < 1 THEN path
    ELSE IF CharAt(path, i) = "/" THEN SubSeq(path, i + 1, Len(path))
    ELSE BaseFrom(path, i - 1)

Base(path) == IF path = "" THEN "." ELSE BaseFrom(path, Len(path))

\* strings.Contains
Contains(s, substr) ==
    \E i \in 1..(Len(s) - Len(substr) + 1) : SubSeq(s, i, i + Len(substr) - 1) = substr

\* unicode.ToLower and unicode.ToUpper on the ASCII letters
LowerOf ==
    [ A |-> "a", B |-> "b", C |-> "c", D |-> "d", E |-> "e", F |-> "f", G |-> "g",
      H |-> "h", I |-> "i", J |-> "j", K |-> "k", L |-> "l", M |-> "m", N |-> "n",
      O |-> "o", P |-> "p", Q |-> "q", R |-> "r", S |-> "s", T |-> "t", U |-> "u",
      V |-> "v", W |-> "w", X |-> "x", Y |-> "y", Z |-> "z" ]

UpperOf ==
    [ a |-> "A", b |-> "B", c |-> "C", d |-> "D", e |-> "E", f |-> "F", g |-> "G",
      h |-> "H", i |-> "I", j |-> "J", k |-> "K", l |-> "L", m |-> "M", n |-> "N",
      o |-> "O", p |-> "P", q |-> "Q", r |-> "R", s |-> "S", t |-> "T", u |-> "U",
      v |-> "V", w |-> "W", x |-> "X", y |-> "Y", z |-> "Z" ]

\* the image of c under the letter map m, c itself if m does not map it
MapChar(c, m) == IF c \in DOMAIN m THEN m[c] ELSE c

RECURSIVE ToLower(_)
ToLower(s) ==
    IF s = "" THEN ""
    ELSE MapChar(CharAt(s, 1), LowerOf) \o ToLower(SubSeq(s, 2, Len(s)))

\* strings.Title on a single word
Title(s) ==
    IF s = "" THEN ""
    ELSE MapChar(CharAt(s, 1), UpperOf) \o SubSeq(s, 2, Len(s))

B64Alphabet == "ABCDEFGHIJKLMNOPQRSTUVWXYZabcdefghijklmnopqrstuvwxyz0123456789+/"

B64Char(n) == CharAt(B64Alphabet, n + 1)

RECURSIVE EncodeToString(_)
EncodeToString(data) ==
    IF Len(data) = 0 THEN ""
    ELSE IF Len(data) = 1 THEN
        B64Char(data[1] \div 4) \o B64Char((data[1] % 4) * 16) \o "=="
    ELSE IF Len(data) = 2 THEN
        B64Char(data[1] \div 4)
            \o B64Char((data[1] % 4) * 16 + data[2] \div 16)
            \o B64Char((data[2] % 16) * 4) \o "="
    ELSE
        B64Char(data[1] \div 4)
            \o B64Char((data[1] % 4) * 16 + data[2] \div 16)
            \o B64Char((data[2] % 16) * 4 + data[3] \div 64)
            \o B64Char(data[3] % 64)
            \o EncodeToString(SubSeq(data, 4, Len(data)))

(***************************************************************************)
(* Errors.  Every Go error is a record of the same shape: kind names the   *)
(* fmt.Errorf site, status and msg are its %d / %s arguments, cause is the *)
(* error wrapped with %w ("" when none).                                   *)
(***************************************************************************)
Error(kind, status, msg, cause) ==
    [kind |-> kind, status |-> status, msg |-> msg, cause |-> cause]

nil == Error("nil", 0, "", "")

ErrCanceled == "context canceled"
ErrDeadline == "context deadline exceeded"

(***************************************************************************)
(* JSON values, and the reading of each raw body text.                     *)
(***************************************************************************)
JNull == [t |-> "null"]
JStr(s) == [t |-> "str", s |-> s]
JArr(a) == [t |-> "arr", a |-> a]
JObj(o) == [t |-> "obj", o |-> o]
JNum(n) == [t |-> "num", n |-> n]
JBad == [t |-> "bad"]

BodyHello == "{\"choices\":[{\"message\":{\"content\":\"hello\"}}]}"
BodyTwo == "{\"choices\":[{\"message\":{\"content\":\"first\"}},{\"message\":{\"content\":\"second\"}}]}"
BodyNoChoices == "{\"choices\":[]}"
BodyEmptyObject == "{}"
BodyChoicesString == "{\"choices\":\"none\"}"
BodyNestedError == "{\"error\":{\"message\":\"invalid api key\"}}"
BodyNestedEmpty == "{\"error\":{\"message\":\"\"}}"
BodyFlatError == "{\"message\":\"rate limited\"}"
BodyErrorString == "{\"error\":\"boom\"}"
BodyHTML == "<html>bad gateway</html>"

\* bodies of GET /models
BodyOpenAIModels == "{\"object\":\"list\",\"data\":[{\"id\":\"gpt-4o-mini-128k\",\"owned_by\":\"system\"},{\"id\":\"gpt-4-32k\",\"owned_by\":\"openai\"},{\"id\":\"gpt-3.5-turbo-16k\",\"owned_by\":\"openai\"},{\"id\":\"gpt-4-vision-preview\",\"owned_by\":\"system\"},{\"id\":\"gpt-4o\",\"owned_by\":\"system\"},{\"id\":\"gpt-4\"}]}"
BodyDeepSeekModels == "{\"data\":[{\"id\":\"deepseek-chat\",\"capabilities\":{\"description\":\"General chat\",\"context_length\":64000}}]}"
BodyDeepSeekPartial == "{\"data\":[{\"id\":\"deepseek-coder\",\"capabilities\":{\"context_length\":16000}}]}"
BodyDeepSeekBare == "{\"object\":\"list\",\"data\":[{\"id\":\"deepseek-chat\",\"object\":\"model\",\"owned_by\":\"deepseek\"}]}"
BodyMistralModels == "{\"data\":[{\"id\":\"mistral-large-latest\"},{\"id\":\"open-mixtral-8x7b\"},{\"id\":\"mistral-small-latest\"}]}"
BodyNoModels == "{\"data\":[]}"
BodyDataString == "{\"data\":\"none\"}"

ListBodies ==
    { BodyOpenAIModels, BodyDeepSeekModels, BodyDeepSeekPartial, BodyDeepSeekBare,
      BodyMistralModels, BodyNoModels, BodyDataString, BodyHTML }

Bodies ==
    { BodyHello, BodyTwo, BodyNoChoices, BodyEmptyObject, BodyChoicesString,
      BodyNestedError, BodyNestedEmpty, BodyFlatError, BodyErrorString,
      BodyHTML, "" }

Choice(content) ==
    JObj([k \in {"message"} |-> JObj([c \in {"content"} |-> JStr(content)])])

\* one element of a /models data array
ModelEntry(id, ownedBy) ==
    JObj([k \in {"id", "owned_by"} |-> IF k = "id" THEN JStr(id) ELSE JStr(ownedBy)])

ParseJSON(raw) ==
    CASE raw = BodyHello -> JObj([k \in {"choices"} |-> JArr(<<Choice("hello")>>)])
      [] raw = BodyTwo ->
            JObj([k \in {"choices"} |-> JArr(<<Choice("first"), Choice("second")>>)])
      [] raw = BodyNoChoices -> JObj([k \in {"choices"} |-> JArr(<<>>)])
      [] raw = BodyEmptyObject -> JObj([k \in {} |-> JNull])
      [] raw = BodyChoicesString -> JObj([k \in {"choices"} |-> JStr("none")])
      [] raw = BodyNestedError ->
            JObj([k \in {"error"} |->
                    JObj([m \in {"message"} |-> JStr("invalid api key")])])
      [] raw = BodyNestedEmpty ->
            JObj([k \in {"error"} |-> JObj([m \in {"message"} |-> JStr("")])])
      [] raw = BodyFlatError -> JObj([k \in {"message"} |-> JStr("rate limited")])
      [] raw = BodyErrorString -> JObj([k \in {"error"} |-> JStr("boom")])
      [] raw = BodyOpenAIModels ->
            JObj([k \in {"object", "data"} |->
                    IF k = "object" THEN JStr("list")
                    ELSE JArr(<<ModelEntry("gpt-4o-mini-128k", "system"),
                                ModelEntry("gpt-4-32k", "openai"),
                                ModelEntry("gpt-3.5-turbo-16k", "openai"),
                                ModelEntry("gpt-4-vision-preview", "system"),
                                ModelEntry("gpt-4o", "system"),
                                JObj([f \in {"id"} |-> JStr("gpt-4")])>>)])
      [] raw = BodyDeepSeekModels ->
            JObj([k \in {"data"} |->
                    JArr(<<JObj([f \in {"id", "capabilities"} |->
                                   IF f = "id" THEN JStr("deepseek-chat")
                                   ELSE JObj([c \in {"description", "context_length"} |->
                                                IF c = "description"
                                                THEN JStr("General chat")
                                                ELSE JNum(64000)])])>>)])
      [] raw = BodyDeepSeekPartial ->
            JObj([k \in {"data"} |->
                    JArr(<<JObj([f \in {"id", "capabilities"} |->
                                   IF f = "id" THEN JStr("deepseek-coder")
                                   ELSE JObj([c \in {"context_length"} |->
                                                JNum(16000)])])>>)])
      [] raw = BodyDeepSeekBare ->
            JObj([k \in {"object", "data"} |->
                    IF k = "object" THEN JStr("list")
                    ELSE JArr(<<JObj([f \in {"id", "object", "owned_by"} |->
                                        CASE f = "id" -> JStr("deepseek-chat")
                                          [] f = "object" -> JStr("model")
                                          [] OTHER -> JStr("deepseek")])>>)])
      [] raw = BodyMistralModels ->
            JObj([k \in {"data"} |->
                    JArr(<<JObj([f \in {"id"} |-> JStr("mistral-large-latest")]),
                           JObj([f \in {"id"} |-> JStr("open-mixtral-8x7b")]),
                           JObj([f \in {"id"} |-> JStr("mistral-small-latest")])>>)])
      [] raw = BodyNoModels -> JObj([k \in {"data"} |-> JArr(<<>>)])
      [] raw = BodyDataString -> JObj([k \in {"data"} |-> JStr("none")])
      [] OTHER -> JBad

(***************************************************************************)
(* encoding/json Unmarshal into the structs the providers declare.  A      *)
(* missing key or a JSON null leaves the field at its zero value; a value  *)
(* of the wrong JSON type is an error.                                     *)
(***************************************************************************)
Field(j, k) == IF j.t = "obj" /\ k \in DOMAIN j.o THEN j.o[k] ELSE JNull

StructOK(j) == j.t \in {"obj", "null"}

StringOK(j) == j.t \in {"str", "null"}

StringOf(j) == IF j.t = "str" THEN j.s ELSE ""

\* openAIError: {"error": {"message": string}}
UnmarshalOpenAIError(raw) ==
    LET j == ParseJSON(raw)
        e == Field(j, "error")
        m == Field(e, "message")
    IN  [ok |-> StructOK(j) /\ StructOK(e) /\ StringOK(m), Message |-> StringOf(m)]

\* deepseekError, mistralError: {"message": string}
UnmarshalFlatError(raw) ==
    LET j == ParseJSON(raw)
        m == Field(j, "message")
    IN  [ok |-> StructOK(j) /\ StringOK(m), Message |-> StringOf(m)]

IntOK(j) == j.t \in {"num", "null"}

IntOf(j) == IF j.t = "num" THEN j.n ELSE 0

ChoiceOK(c) ==
    /\ StructOK(c)
    /\ StructOK(Field(c, "message"))
    /\ StringOK(Field(Field(c, "message"), "content"))

ChoiceContent(c) == StringOf(Field(Field(c, "message"), "content"))

\* struct { Choices []struct { Message struct { Content string } } }
UnmarshalResponse(raw) ==
    LET j == ParseJSON(raw)
        cs == Field(j, "choices")
        arr == IF cs.t = "arr" THEN cs.a ELSE <<>>
    IN  [ok |-> /\ StructOK(j)
                /\ cs.t \in {"arr", "null"}
                /\ \A i \in 1..Len(arr) : ChoiceOK(arr[i]),
         Choices |-> [i \in 1..Len(arr) |-> ChoiceContent(arr[i])]]

(***************************************************************************)
(* Providers: constructors, capabilities, model choice, request payloads   *)
(***************************************************************************)
Config(key, timeout, model, debug) ==
    [APIKey |-> key, Timeout |-> timeout, Model |-> model, Debug |-> debug]

NoProvider == [name |-> "", config |-> Config("", 0, "", FALSE), clientTimeout |-> 0]

NewOpenAI(config) ==
    [name |-> "openai",
     config |-> IF config.Timeout = 0
                THEN [config EXCEPT !.Timeout = openAIDefaultTimeout]
                ELSE config,
     clientTimeout |-> openAIDefaultTimeout]

NewDeepSeek(config) ==
    [name |-> "deepseek",
     config |-> IF config.Timeout = 0
                THEN [config EXCEPT !.Timeout = deepseekDefaultTimeout]
                ELSE config,
     clientTimeout |-> deepseekDefaultTimeout]

NewMistral(config) ==
    [name |-> "mistral",
     config |-> config,
     clientTimeout |-> IF config.Timeout > 0 /\ config.Timeout <= 30
                       THEN config.Timeout
                       ELSE mistralDefaultTimeout]

OpenAISupports(feature) ==
    feature \in {FeatureTextGeneration, FeatureVision, FeatureMultiModal}

DeepSeekSupports(feature) == feature = FeatureTextGeneration

MistralSupports(feature) == feature = FeatureTextGeneration

\* Provider.Supports, dispatched on the dynamic type
Supports(p, feature) ==
    CASE p.name = "openai" -> OpenAISupports(feature)
      [] p.name = "deepseek" -> DeepSeekSupports(feature)
      [] p.name = "mistral" -> MistralSupports(feature)
      [] OTHER -> FALSE

OpenAIGetModel(p) ==
    IF p.config.Model # "" THEN p.config.Model ELSE openAIDefaultTextModel

DeepSeekGetModel(p) ==
    IF p.config.Model # "" THEN p.config.Model ELSE deepseekDefaultModel

MistralGetModel(p) ==
    IF p.config.Model # "" THEN p.config.Model ELSE mistralDefaultModel

\* getMimeType passing the extension through unmapped
getMimeTypeRawExt(filename) ==
    LET ext == Ext(filename)
    IN  IF ext = "" THEN "jpeg" ELSE SubSeq(ext, 2, Len(ext))

getMimeType(filename) ==
    LET ext == Ext(filename)
    IN  CASE ext = ".png" -> "png"
          [] ext \in {".jpg", ".jpeg"} -> "jpeg"
          [] ext = ".gif" -> "gif"
          [] OTHER -> "jpeg"

maskAPIKey(key) ==
    IF Len(key) < 8 THEN "****"
    ELSE SubSeq(key, 1, 4) \o "..." \o SubSeq(key, Len(key) - 3, Len(key))

\* A message content is a plain string (text path) or an array of blocks
\* (vision path).
TextContent(prompt) == [kind |-> "string", text |-> prompt, parts |-> <<>>]

TextBlock(prompt) == [type |-> "text", text |-> prompt, url |-> ""]

ImageBlock(img) ==
    [type |-> "image_url",
     text |-> "",
     url |-> "data:image/" \o getMimeType(img.Filename) \o ";base64,"
                \o EncodeToString(img.Data)]

VisionContent(in) ==
    [kind |-> "array",
     text |-> "",
     parts |-> <<TextBlock(in.Prompt)>>
                 \o [i \in 1..Len(in.Images) |-> ImageBlock(in.Images[i])]]

\* The POST to {base}/chat/completions with one user-role message.
ChatRequest(base, key, model, content) ==
    [method |-> "POST",
     url |-> base \o "/chat/completions",
     authorization |-> "Bearer " \o key,
     model |-> model,
     role |-> "user",
     content |-> content,
     max_tokens |-> 1000]

OpenAITextPayload(p, prompt) ==
    ChatRequest(openAIBaseURL, p.config.APIKey, OpenAIGetModel(p), TextContent(prompt))

\* the vision path honouring the configured text model
OpenAIVisionPayloadConfigModel(p, in) ==
    ChatRequest(openAIBaseURL, p.config.APIKey, OpenAIGetModel(p), VisionContent(in))

OpenAIVisionPayload(p, in) ==
    ChatRequest(openAIBaseURL, p.config.APIKey, openAIVisionModel, VisionContent(in))

DeepSeekPayload(p, prompt) ==
    ChatRequest(deepseekBaseURL, p.config.APIKey, DeepSeekGetModel(p), TextContent(prompt))

MistralPayload(p, prompt) ==
    ChatRequest(mistralBaseURL, p.config.APIKey, MistralGetModel(p), TextContent(prompt))

(***************************************************************************)
(* What http.Client.Do followed by io.ReadAll can deliver                  *)
(***************************************************************************)
NetErr(cause) == [kind |-> "neterr", cause |-> cause, status |-> 0, body |-> ""]
ReadErr(cause) == [kind |-> "readerr", cause |-> cause, status |-> 0, body |-> ""]
Resp(status, body) == [kind |-> "resp", cause |-> "", status |-> status, body |-> body]

Statuses == {200, 201, 400}

NetCauses == {"connection refused", "Client.Timeout exceeded"}

\* A live context lets the exchange end any way; a cancelled one makes Do
\* return the context's error, or ReadAll when the headers were already in.
PossibleOutcomes(c, calls) ==
    IF c.err = ""
    THEN {NetErr(x) : x \in NetCauses} \cup {ReadErr("unexpected EOF")}
            \cup {Resp(s, b) : s \in Statuses, b \in Bodies}
    ELSE {NetErr(c.err)}
            \cup (IF c.during = "inflight" /\ c.call = calls
                  THEN {ReadErr(c.err)} ELSE {})

(***************************************************************************)
(* Response handling after the status line and body are in                 *)
(***************************************************************************)
Ret(res, e) == [result |-> res, err |-> e]

\* taking the last choice instead of the first
ChoicesResultLast(body) ==
    LET r == UnmarshalResponse(body)
    IN  IF ~r.ok THEN Ret("", Error("parse", 0, "response parsing failed", "json"))
        ELSE IF Len(r.Choices) = 0
             THEN Ret("", Error("empty", 0, "no content in response", ""))
        ELSE Ret(r.Choices[Len(r.Choices)], nil)

\* choices decoding shared by the three providers
ChoicesResult(body) ==
    LET r == UnmarshalResponse(body)
    IN  IF ~r.ok THEN Ret("", Error("parse", 0, "response parsing failed", "json"))
        ELSE IF Len(r.Choices) = 0
             THEN Ret("", Error("empty", 0, "no content in response", ""))
        ELSE Ret(r.Choices[1], nil)

\* makeRequest without the fallback to the raw body
OpenAIMakeRequestResultNoFallback(o) ==
    CASE o.kind = "neterr" -> Ret("", Error("request", 0, "API request failed", o.cause))
      [] o.kind = "readerr" ->
            Ret("", Error("read", 0, "failed to read response body", o.cause))
      [] OTHER ->
            IF o.status # StatusOK
            THEN Ret("", Error("api", o.status, UnmarshalOpenAIError(o.body).Message, ""))
            ELSE ChoicesResult(o.body)

OpenAIMakeRequestResult(o) ==
    CASE o.kind = "neterr" -> Ret("", Error("request", 0, "API request failed", o.cause))
      [] o.kind = "readerr" ->
            Ret("", Error("read", 0, "failed to read response body", o.cause))
      [] OTHER ->
            IF o.status # StatusOK
            THEN LET apiError == UnmarshalOpenAIError(o.body)
                 IN  IF apiError.ok /\ apiError.Message # ""
                     THEN Ret("", Error("api", o.status, apiError.Message, ""))
                     ELSE Ret("", Error("api", o.status, o.body, ""))
            ELSE ChoicesResult(o.body)

DeepSeekResult(o) ==
    CASE o.kind = "neterr" -> Ret("", Error("request", 0, "API request failed", o.cause))
      [] o.kind = "readerr" ->
            Ret("", Error("read", 0, "failed to read response body", o.cause))
      [] OTHER ->
            IF o.status # StatusOK
            THEN LET apiError == UnmarshalFlatError(o.body)
                 IN  IF apiError.ok /\ apiError.Message # ""
                     THEN Ret("", Error("api", o.status, apiError.Message, ""))
                     ELSE Ret("", Error("api", o.status, o.body, ""))
            ELSE ChoicesResult(o.body)

\* Mistral handing back the undecoded body of a 200 response
MistralResultRawBody(o) ==
    CASE o.kind = "readerr" ->
            Ret("", Error("read", 0, "failed to read response body", o.cause))
      [] OTHER ->
            IF o.status # StatusOK
            THEN Ret("", Error("api", o.status, o.body, ""))
            ELSE Ret(o.body, nil)

\* Mistral, once client.Do has returned a response
MistralResult(o) ==
    CASE o.kind = "readerr" ->
            Ret("", Error("read", 0, "failed to read response body", o.cause))
      [] OTHER ->
            IF o.status # StatusOK
            THEN LET apiError == UnmarshalFlatError(o.body)
                 IN  IF apiError.ok /\ apiError.Message # ""
                     THEN Ret("", Error("api", o.status, apiError.Message, ""))
                     ELSE Ret("", Error("api", o.status, o.body, ""))
            ELSE ChoicesResult(o.body)

(***************************************************************************)
(* ListModels: GET {base}/models and the mapping of its data array         *)
(***************************************************************************)
Model(id, description, contextWindow, supportsVision) ==
    [ID |-> id, Description |-> description, ContextWindow |-> contextWindow,
     SupportsVision |-> supportsVision]

ListRet(ms, e) == [models |-> ms, err |-> e]

ListRequest(base, key) ==
    [method |-> "GET", url |-> base \o "/models", authorization |-> "Bearer " \o key]

getOpenAIContextWindow(modelID) ==
    IF Contains(modelID, "128k") THEN 128000
    ELSE IF Contains(modelID, "32k") THEN 32000
    ELSE IF Contains(modelID, "16k") THEN 16000
    ELSE 4096

\* isVisionModel without its "gpt-4o" test
isVisionModelNoGpt4o(modelID) ==
    Contains(modelID, "vision") \/ Contains(modelID, "turbo-vision")

isVisionModel(modelID) ==
    \/ Contains(modelID, "vision")
    \/ Contains(modelID, "gpt-4o")
    \/ Contains(modelID, "turbo-vision")

getMistralContextWindow(modelID) ==
    IF Contains(modelID, "large") THEN 128000
    ELSE IF \/ Contains(modelID, "8x22b")
            \/ Contains(modelID, "8x7b")
            \/ Contains(modelID, "ministral-8b")
         THEN 32000
    ELSE 32000

\* the elements of a "data" value, none when it is absent or null
DataArray(j) == LET d == Field(j, "data") IN IF d.t = "arr" THEN d.a ELSE <<>>

DataOK(j) == StructOK(j) /\ Field(j, "data").t \in {"arr", "null"}

\* OpenAIModelResponse
UnmarshalOpenAIModels(raw) ==
    LET j == ParseJSON(raw)
        arr == DataArray(j)
    IN  [ok |-> /\ DataOK(j)
                /\ StringOK(Field(j, "object"))
                /\ \A i \in 1..Len(arr) :
                      /\ StructOK(arr[i])
                      /\ StringOK(Field(arr[i], "id"))
                      /\ StringOK(Field(arr[i], "object"))
                      /\ IntOK(Field(arr[i], "created"))
                      /\ StringOK(Field(arr[i], "owned_by"))
                      /\ StringOK(Field(arr[i], "description")),
         Data |-> [i \in 1..Len(arr) |->
                     [ID |-> StringOf(Field(arr[i], "id")),
                      OwnedBy |-> StringOf(Field(arr[i], "owned_by")),
                      Description |-> StringOf(Field(arr[i], "description"))]]]

\* DeepSeekModelsResponse
UnmarshalDeepSeekModels(raw) ==
    LET j == ParseJSON(raw)
        arr == DataArray(j)
        Details(i) == Field(arr[i], "capabilities")
    IN  [ok |-> /\ DataOK(j)
                /\ \A i \in 1..Len(arr) :
                      /\ StructOK(arr[i])
                      /\ StringOK(Field(arr[i], "id"))
                      /\ StructOK(Details(i))
                      /\ StringOK(Field(Details(i), "description"))
                      /\ IntOK(Field(Details(i), "context_length")),
         Data |-> [i \in 1..Len(arr) |->
                     [ID |-> StringOf(Field(arr[i], "id")),
                      Details |->
                         [Description |-> StringOf(Field(Details(i), "description")),
                          ContextWindow |-> IntOf(Field(Details(i), "context_length"))]]]]

\* the anonymous response struct of Mistral.ListModels
UnmarshalMistralModels(raw) ==
    LET j == ParseJSON(raw)
        arr == DataArray(j)
    IN  [ok |-> /\ DataOK(j)
                /\ \A i \in 1..Len(arr) :
                      /\ StructOK(arr[i])
                      /\ StringOK(Field(arr[i], "id"))
                      /\ IntOK(Field(arr[i], "created"))
                      /\ StringOK(Field(arr[i], "object"))
                      /\ StringOK(Field(arr[i], "owned_by")),
         Data |-> [i \in 1..Len(arr) |-> [ID |-> StringOf(Field(arr[i], "id"))]]]

\* OpenAI.ListModels from the return of client.Do on
OpenAIListModels(o) ==
    CASE o.kind = "neterr" ->
            ListRet(<<>>, Error("request", 0, "API request failed", o.cause))
      [] o.kind = "readerr" ->
            ListRet(<<>>, Error("read", 0, "failed to read response body", o.cause))
      [] OTHER ->
            IF o.status # StatusOK
            THEN ListRet(<<>>, Error("api", o.status, "", ""))
            ELSE LET response == UnmarshalOpenAIModels(o.body)
                 IN  IF ~response.ok
                     THEN ListRet(<<>>, Error("parse", 0, "response parsing failed", "json"))
                     ELSE ListRet([i \in 1..Len(response.Data) |->
                                     LET m == response.Data[i]
                                     IN  Model(m.ID,
                                               m.ID \o " (" \o m.OwnedBy \o ")",
                                               getOpenAIContextWindow(m.ID),
                                               isVisionModel(m.ID))],
                                  nil)

\* DeepSeek.ListModels from the return of client.Do on.  The status is
\* tested before the body is read: a body that cannot be read is a
\* decoding failure of a 200 response.
DeepSeekListModels(o) ==
    CASE o.kind = "neterr" ->
            ListRet(<<>>, Error("request", 0, "API request failed", o.cause))
      [] o.kind = "readerr" ->
            ListRet(<<>>, Error("parse", 0, "response parsing failed", o.cause))
      [] OTHER ->
            IF o.status # StatusOK
            THEN ListRet(<<>>, Error("api", o.status, o.body, ""))
            ELSE LET response == UnmarshalDeepSeekModels(o.body)
                 IN  IF ~response.ok
                     THEN ListRet(<<>>, Error("parse", 0, "response parsing failed", "json"))
                     ELSE ListRet([i \in 1..Len(response.Data) |->
                                     LET m == response.Data[i]
                                     IN  Model(m.ID,
                                               m.Details.Description,
                                               m.Details.ContextWindow,
                                               FALSE)],
                                  nil)

\* Mistral.ListModels from the return of client.Do on
MistralListModels(o) ==
    CASE o.kind = "neterr" ->
            ListRet(<<>>, Error("request", 0, "API request failed", o.cause))
      [] o.kind = "readerr" ->
            ListRet(<<>>, Error("read", 0, "failed to read response body", o.cause))
      [] OTHER ->
            IF o.status # StatusOK
            THEN ListRet(<<>>, Error("api", o.status, o.body, ""))
            ELSE LET response == UnmarshalMistralModels(o.body)
                 IN  IF ~response.ok
                     THEN ListRet(<<>>, Error("parse", 0, "response parsing failed", "json"))
                     ELSE ListRet([i \in 1..Len(response.Data) |->
                                     LET m == response.Data[i]
                                     IN  Model(m.ID,
                                               "Mistral model: " \o m.ID,
                                               getMistralContextWindow(m.ID),
                                               FALSE)],
                                  nil)

\* ModelLister.ListModels, dispatched on the dynamic type
ListModels(p, o) ==
    CASE p.name = "openai" -> OpenAIListModels(o)
      [] p.name = "deepseek" -> DeepSeekListModels(o)
      [] OTHER -> MistralListModels(o)

\* the URL each provider lists its models from
ModelsRequest(p) ==
    CASE p.name = "openai" -> ListRequest(openAIBaseURL, p.config.APIKey)
      [] p.name = "deepseek" -> ListRequest(deepseekBaseURL, p.config.APIKey)
      [] OTHER -> ListRequest(mistralBaseURL, p.config.APIKey)

(***************************************************************************)
(* Inputs the run can be given                                             *)
(***************************************************************************)
SeqsUpTo(S, n) == UNION {[1..k -> S] : k \in 0..n}

ProviderNames == {"openai", "deepseek", "mistral", "claude"}

EnvVars == {"OPENAI_API_KEY", "DEEPSEEK_API_KEY", "MISTRAL_API_KEY"}

FlagKey == "sk-flag-0123456789"
EnvKey == "sk-env-9876543210"

\* the image paths a user may pass with --images, and the files behind them
ImagePaths == {"a.png", "pics/b.jpg", "c.gif", "missing.png"}

FileExists(path) == path # "missing.png"

FileData(path) ==
    CASE path = "a.png" -> <<77>>
      [] path = "pics/b.jpg" -> <<77, 97>>
      [] path = "c.gif" -> <<77, 97, 110>>
      [] OTHER -> <<>>

FileInput(data, filename) == [Data |-> data, Filename |-> filename]

\* the attachments a library caller may pass
Attachments ==
    { FileInput(<<77>>, "a.png"), FileInput(<<77, 97>>, "b.jpg"),
      FileInput(<<77, 97, 110>>, "c.jpeg"), FileInput(<<255, 0, 16, 131>>, "d.gif"),
      FileInput(<<>>, "e.PNG"), FileInput(<<104, 105>>, "notes") }

Prompt == "describe"

Inputs(prompt, images) == [Prompt |-> prompt, Images |-> images]

NoFlags ==
    [providerFlag |-> "", apiKeyFlag |-> "", imagesFlag |-> <<>>, promptFlag |-> "",
     jsonOutput |-> FALSE, debugFlag |-> FALSE]

NoEnv == [v \in EnvVars |-> ""]

Live == [err |-> "", during |-> "", call |-> 0]

\* keys of 0, 7, 8 and 9 characters
ShortKeys == {"", "sk-1234", "sk-12345", "sk-123456"}

DirectConfigs ==
    { Config(EnvKey, t, m, d) : t \in {0, 10, 60}, m \in {"", "my-model"}, d \in BOOLEAN }
        \cup { Config(k, 0, "", TRUE) : k \in ShortKeys }

DirectProviders ==
    {NewOpenAI(c) : c \in DirectConfigs} \cup {NewDeepSeek(c) : c \in DirectConfigs}
        \cup {NewMistral(c) : c \in DirectConfigs}

InitCommon ==
    /\ warnings = <<>>
    /\ ctx = Live
    /\ generateCalls = 0
    /\ attempt = 0
    /\ httpCalls = 0
    /\ requests = <<>>
    /\ outcomes = <<>>
    /\ lastErr = nil
    /\ result = ""
    /\ err = nil
    /\ stdout = <<>>
    /\ exitErr = nil
    /\ formatCalls = 0

\* the provider names a user may pass to the models command
ModelsProviderNames == {"openai", "deepseek", "OpenAI", "mistral"}

\* how a GET /models exchange can end
ListOutcomes ==
    {NetErr("connection refused"), ReadErr("unexpected EOF")}
        \cup {Resp(StatusOK, b) : b \in ListBodies}
        \cup {Resp(s, BodyFlatError) : s \in Statuses \ {StatusOK}}

\* make(map[string][]providers.Model)
NoModels == [p \in {} |-> <<>>]

\* no models command and no ListModels call is running
InitNoListing ==
    /\ modelsProvider = <<>>
    /\ modelsJson = FALSE
    /\ idx = 0
    /\ providerModels = NoModels
    /\ errs = <<>>
    /\ stderr = <<>>
    /\ models = <<>>

\* generateCmd about to run: flags parsed by cobra, nothing built yet
InitCLI ==
    /\ mode = "cli"
    /\ pc = "parse"
    /\ flags \in [providerFlag : ProviderNames,
                  apiKeyFlag : {"", FlagKey},
                  imagesFlag : SeqsUpTo(ImagePaths, MaxImages),
                  promptFlag : {Prompt},
                  jsonOutput : BOOLEAN,
                  debugFlag : BOOLEAN]
    /\ env \in [EnvVars -> {"", EnvKey}]
    /\ dotenv \in BOOLEAN
    /\ inputs = Inputs("", <<>>)
    /\ provider = NoProvider
    /\ InitCommon
    /\ InitNoListing

\* a caller holding a constructed provider, about to call Generate
InitDirect ==
    /\ mode = "direct"
    /\ pc = "generate"
    /\ flags = NoFlags
    /\ env = NoEnv
    /\ dotenv = FALSE
    /\ inputs \in {Inputs(Prompt, imgs) : imgs \in SeqsUpTo(Attachments, MaxImages)}
    /\ provider \in DirectProviders
    /\ InitCommon
    /\ InitNoListing

Init == InitCLI \/ InitDirect

\* modelsCmd about to run (the models command reads its keys from the
\* environment only, and knows no Mistral)
InitModelsCmd ==
    /\ mode = "models"
    /\ pc = "models"
    /\ flags = NoFlags
    /\ env \in {e \in [EnvVars -> {"", EnvKey}] : e["MISTRAL_API_KEY"] = ""}
    /\ dotenv = FALSE
    /\ inputs = Inputs("", <<>>)
    /\ provider = NoProvider
    /\ InitCommon
    /\ modelsProvider \in SeqsUpTo(ModelsProviderNames, MaxProviders)
    /\ modelsJson \in BOOLEAN
    /\ idx = 0
    /\ providerModels = NoModels
    /\ errs = <<>>
    /\ stderr = <<>>
    /\ models = <<>>

\* a caller holding a constructed provider, about to call ListModels
InitListModels ==
    /\ mode = "list"
    /\ pc = "listmodels"
    /\ flags = NoFlags
    /\ env = NoEnv
    /\ dotenv = FALSE
    /\ inputs = Inputs("", <<>>)
    /\ provider \in DirectProviders
    /\ InitCommon
    /\ InitNoListing

ModelsInit == InitModelsCmd \/ InitListModels

(***************************************************************************)
(* The generate command's helpers                                          *)
(***************************************************************************)
\* fmt.Errorf("<prefix>: %w", e)
Wrap(prefix, e) == [e EXCEPT !.msg = prefix \o ": " \o @]

RECURSIVE parseInputsFrom(_, _, _)
parseInputsFrom(paths, i, imageReaders) ==
    IF i > Len(paths) THEN [images |-> imageReaders, err |-> nil]
    ELSE IF ~FileExists(paths[i])
         THEN [images |-> <<>>,
               err |-> Error("open", 0, "failed to open image " \o paths[i],
                             "no such file or directory")]
    ELSE parseInputsFrom(paths, i + 1,
            Append(imageReaders, FileInput(FileData(paths[i]), Base(paths[i]))))

parseInputs(f) ==
    LET r == parseInputsFrom(f.imagesFlag, 1, <<>>)
    IN  IF r.err # nil THEN [inputs |-> Inputs("", <<>>), err |-> r.err]
        ELSE [inputs |-> Inputs(f.promptFlag, r.images), err |-> nil]

\* getAPIKey letting the environment variable win over --apikey
getAPIKeyEnvFirst(name, flagKey, e) ==
    LET envVar == CASE name = "openai" -> e["OPENAI_API_KEY"]
                    [] name = "deepseek" -> e["DEEPSEEK_API_KEY"]
                    [] name = "mistral" -> e["MISTRAL_API_KEY"]
                    [] OTHER -> ""
    IN  IF envVar # "" THEN [key |-> envVar, err |-> nil]
        ELSE IF flagKey # "" THEN [key |-> flagKey, err |-> nil]
        ELSE [key |-> "", err |-> Error("apikey", 0, "API key required for " \o name, "")]

getAPIKey(name, flagKey, e) ==
    IF flagKey # "" THEN [key |-> flagKey, err |-> nil]
    ELSE IF name \notin {"openai", "deepseek", "mistral"}
         THEN [key |-> "", err |-> Error("unsupported", 0, "unsupported provider: " \o name, "")]
    ELSE LET envVar == CASE name = "openai" -> e["OPENAI_API_KEY"]
                         [] name = "deepseek" -> e["DEEPSEEK_API_KEY"]
                         [] OTHER -> e["MISTRAL_API_KEY"]
         IN  IF envVar = ""
             THEN [key |-> "",
                   err |-> Error("apikey", 0, "API key required for " \o name
                                   \o ". Set via --apikey or environment variable", "")]
             ELSE [key |-> envVar, err |-> nil]

getProvider(name, flagKey, e, debug) ==
    LET k == getAPIKey(name, flagKey, e)
        config == Config(k.key, 0, "", debug)
    IN  IF k.err # nil THEN [provider |-> NoProvider, err |-> k.err]
        ELSE CASE name = "openai" -> [provider |-> NewOpenAI(config), err |-> nil]
               [] name = "deepseek" -> [provider |-> NewDeepSeek(config), err |-> nil]
               [] name = "mistral" -> [provider |-> NewMistral(config), err |-> nil]
               [] OTHER -> [provider |-> NoProvider,
                            err |-> Error("unsupported", 0,
                                          "unsupported provider: " \o name, "")]

validateCapabilities(p, in) ==
    IF Len(in.Images) > 0 /\ ~Supports(p, FeatureVision)
    THEN Error("capability", 0, "selected provider doesn't support image analysis", "")
    ELSE nil

\* error.Error()
ErrorString(e) ==
    IF e.kind = "api" THEN "API error [" \o ToString(e.status) \o "]: " \o e.msg
    ELSE IF e.cause # "" THEN e.msg \o ": " \o e.cause
    ELSE e.msg

CLIOutput(success, content, error, warns) ==
    [type |-> "json", Success |-> success, Content |-> content, Error |-> error,
     Warnings |-> warns]

\* formatOutput handing the error back in JSON mode too
formatOutputReturningErr(jsonFlag, content, e, warns) ==
    IF jsonFlag
    THEN [print |-> <<CLIOutput(e = nil, content, IF e # nil THEN ErrorString(e) ELSE "",
                                warns)>>,
          ret |-> e]
    ELSE IF e # nil THEN [print |-> <<>>, ret |-> e]
    ELSE [print |-> <<[type |-> "text", Content |-> content]>>, ret |-> nil]

\* what formatOutput prints and what it returns
formatOutput(jsonFlag, content, e, warns) ==
    IF jsonFlag
    THEN [print |-> <<CLIOutput(e = nil, content, IF e # nil THEN ErrorString(e) ELSE "",
                                warns)>>,
          ret |-> nil]
    ELSE IF e # nil THEN [print |-> <<>>, ret |-> e]
    ELSE [print |-> <<[type |-> "text", Content |-> content]>>, ret |-> nil]

(***************************************************************************)
(* generateCmd.RunE, stage by stage.  A stage that fails calls             *)
(* formatOutput and returns.                                               *)
(***************************************************************************)
\* return formatOutput(jsonOutput, content, e, warns), after printing `lines`
ReturnFormatted(content, e, warns, lines) ==
    LET out == formatOutput(flags.jsonOutput, content, e, warns)
    IN  /\ err' = e
        /\ stdout' = stdout \o lines \o out.print
        /\ exitErr' = out.ret
        /\ formatCalls' = formatCalls + 1
        /\ pc' = "done"

CmdParseInputs ==
    /\ mode = "cli"
    /\ pc = "parse"
    /\ LET w == IF dotenv THEN <<>> ELSE <<"No .env file found">>
           r == parseInputs(flags)
       IN  /\ warnings' = w
           /\ IF r.err # nil
              THEN /\ ReturnFormatted("", Wrap("input validation failed", r.err), w, <<>>)
                   /\ UNCHANGED inputs
              ELSE /\ inputs' = r.inputs
                   /\ pc' = "select"
                   /\ UNCHANGED <<err, stdout, exitErr, formatCalls>>
    /\ UNCHANGED listVars
    /\ UNCHANGED <<mode, flags, env, dotenv, provider, ctx, generateCalls, attempt,
                   httpCalls, requests, outcomes, lastErr, result>>

CmdGetProvider ==
    /\ mode = "cli"
    /\ pc = "select"
    /\ LET r == getProvider(flags.providerFlag, flags.apiKeyFlag, env, flags.debugFlag)
       IN  IF r.err # nil
           THEN /\ ReturnFormatted("", Wrap("provider setup failed", r.err), warnings, <<>>)
                /\ UNCHANGED provider
           ELSE /\ provider' = r.provider
                /\ pc' = "capcheck"
                /\ UNCHANGED <<err, stdout, exitErr, formatCalls>>
    /\ UNCHANGED listVars
    /\ UNCHANGED <<mode, flags, env, dotenv, warnings, inputs, ctx, generateCalls,
                   attempt, httpCalls, requests, outcomes, lastErr, result>>

\* RunE going on to Provider.Generate whatever validateCapabilities returned
CmdValidateCapabilitiesIgnored ==
    /\ mode = "cli"
    /\ pc = "capcheck"
    /\ pc' = "generate"
    /\ UNCHANGED <<err, stdout, exitErr, formatCalls>>
    /\ UNCHANGED listVars
    /\ UNCHANGED <<mode, flags, env, dotenv, warnings, inputs, provider, ctx,
                   generateCalls, attempt, httpCalls, requests, outcomes, lastErr,
                   result>>

CmdValidateCapabilities ==
    /\ mode = "cli"
    /\ pc = "capcheck"
    /\ LET e == validateCapabilities(provider, inputs)
       IN  IF e # nil
           THEN ReturnFormatted("", e, warnings, <<>>)
           ELSE /\ pc' = "generate"
                /\ UNCHANGED <<err, stdout, exitErr, formatCalls>>
    /\ UNCHANGED listVars
    /\ UNCHANGED <<mode, flags, env, dotenv, warnings, inputs, provider, ctx,
                   generateCalls, attempt, httpCalls, requests, outcomes, lastErr,
                   result>>

(***************************************************************************)
(* Provider.Generate.  Return(res, e, lines) is Generate returning         *)
(* (res, e) after printing `lines`: to the library caller, or to RunE,     *)
(* which goes on to formatOutput.                                          *)
(***************************************************************************)
Return(res, e, lines) ==
    /\ result' = res
    /\ IF mode = "cli"
       THEN ReturnFormatted(IF e # nil THEN "" ELSE res, e, warnings, lines)
       ELSE /\ err' = e
            /\ stdout' = stdout \o lines
            /\ exitErr' = exitErr
            /\ formatCalls' = formatCalls
            /\ pc' = "done"

\* client.Do(req) is called with the request
Send(req, lines) ==
    /\ httpCalls' = httpCalls + 1
    /\ requests' = Append(requests, req)
    /\ stdout' = stdout \o lines
    /\ pc' = "inflight"
    /\ UNCHANGED <<result, err, exitErr, formatCalls>>

OpenAIGenerate ==
    /\ pc = "generate"
    /\ provider.name = "openai"
    /\ generateCalls' = generateCalls + 1
    /\ IF Len(inputs.Images) > 0
       THEN Send(OpenAIVisionPayload(provider, inputs), <<>>)
       ELSE Send(OpenAITextPayload(provider, inputs.Prompt), <<>>)
    /\ UNCHANGED listVars
    /\ UNCHANGED <<mode, flags, env, dotenv, warnings, inputs, provider, ctx, attempt,
                   outcomes, lastErr>>

\* makeRequest from the return of client.Do on
OpenAIRespond ==
    /\ pc = "inflight"
    /\ provider.name = "openai"
    /\ \E o \in PossibleOutcomes(ctx, httpCalls) :
          /\ outcomes' = Append(outcomes, o)
          /\ LET r == OpenAIMakeRequestResult(o) IN Return(r.result, r.err, <<>>)
    /\ UNCHANGED listVars
    /\ UNCHANGED <<mode, flags, env, dotenv, warnings, inputs, provider, ctx,
                   generateCalls, attempt, httpCalls, requests, lastErr>>

\* DeepSeek.Generate without its image check
DeepSeekGenerateNoImageCheck ==
    /\ pc = "generate"
    /\ provider.name = "deepseek"
    /\ generateCalls' = generateCalls + 1
    /\ Send(DeepSeekPayload(provider, inputs.Prompt), <<>>)
    /\ UNCHANGED listVars
    /\ UNCHANGED <<mode, flags, env, dotenv, warnings, inputs, provider, ctx, attempt,
                   outcomes, lastErr>>

DeepSeekGenerate ==
    /\ pc = "generate"
    /\ provider.name = "deepseek"
    /\ generateCalls' = generateCalls + 1
    /\ IF Len(inputs.Images) > 0
       THEN /\ Return("", Error("capability", 0,
                                "DeepSeek does not support image analysis", ""), <<>>)
            /\ UNCHANGED <<httpCalls, requests>>
       ELSE Send(DeepSeekPayload(provider, inputs.Prompt), <<>>)
    /\ UNCHANGED listVars
    /\ UNCHANGED <<mode, flags, env, dotenv, warnings, inputs, provider, ctx, attempt,
                   outcomes, lastErr>>

\* handleTextRequest sending the request once more after a transport failure
DeepSeekRespondRetrying ==
    /\ pc = "inflight"
    /\ provider.name = "deepseek"
    /\ \E o \in PossibleOutcomes(ctx, httpCalls) :
          /\ outcomes' = Append(outcomes, o)
          /\ IF o.kind = "neterr" /\ httpCalls < 2
             THEN Send(DeepSeekPayload(provider, inputs.Prompt), <<>>)
             ELSE /\ LET r == DeepSeekResult(o) IN Return(r.result, r.err, <<>>)
                  /\ UNCHANGED <<httpCalls, requests>>
    /\ UNCHANGED listVars
    /\ UNCHANGED <<mode, flags, env, dotenv, warnings, inputs, provider, ctx,
                   generateCalls, attempt, lastErr>>

\* handleTextRequest from the return of client.Do on
DeepSeekRespond ==
    /\ pc = "inflight"
    /\ provider.name = "deepseek"
    /\ \E o \in PossibleOutcomes(ctx, httpCalls) :
          /\ outcomes' = Append(outcomes, o)
          /\ LET r == DeepSeekResult(o) IN Return(r.result, r.err, <<>>)
    /\ UNCHANGED listVars
    /\ UNCHANGED <<mode, flags, env, dotenv, warnings, inputs, provider, ctx,
                   generateCalls, attempt, httpCalls, requests, lastErr>>

\* Mistral's [DEBUG] lines (elapsed times left out)
DebugLine(p, event, n, o) ==
    IF ~p.config.Debug THEN <<>>
    ELSE <<[type |-> "debug", event |-> event, attempt |-> n,
            url |-> mistralBaseURL \o "/chat/completions",
            model |-> MistralGetModel(p),
            apikey |-> maskAPIKey(p.config.APIKey),
            status |-> o.status, body |-> o.body, cause |-> o.cause]>>

MistralGenerate ==
    /\ pc = "generate"
    /\ provider.name = "mistral"
    /\ generateCalls' = generateCalls + 1
    /\ IF Len(inputs.Images) > 0
       THEN /\ Return("", Error("capability", 0,
                                "Mistral does not support image analysis", ""), <<>>)
            /\ UNCHANGED <<httpCalls, requests, attempt>>
       ELSE /\ attempt' = 1
            /\ Send(MistralPayload(provider, inputs.Prompt),
                    DebugLine(provider, "send", 1, NetErr("")))
    /\ UNCHANGED listVars
    /\ UNCHANGED <<mode, flags, env, dotenv, warnings, inputs, provider, ctx,
                   outcomes, lastErr>>

\* the loop also going round on a non-200 status
RetryableOrStatus(o) == o.kind = "neterr" \/ (o.kind = "resp" /\ o.status # StatusOK)

\* client.Do returned err != nil: the only outcome the loop goes round on
Retryable(o) == o.kind = "neterr"

\* the retry test off by one
ShouldRetryOffByOne(n) == n <= mistralMaxRetries

\* the loop giving up after the first failure when tracing is on
ShouldRetryUnlessDebug(n) == n < mistralMaxRetries /\ ~provider.config.Debug

\* if attempt < mistralMaxRetries { time.Sleep(...); continue }
ShouldRetry(n) == n < mistralMaxRetries

\* one pass of the loop body from the return of client.Do on
MistralRespond ==
    /\ pc = "inflight"
    /\ provider.name = "mistral"
    /\ \E o \in PossibleOutcomes(ctx, httpCalls) :
          /\ outcomes' = Append(outcomes, o)
          /\ IF Retryable(o)
             THEN LET e == Error("request", 0, "API request failed", o.cause)
                      lines == DebugLine(provider, "failed", attempt, o)
                  IN  /\ lastErr' = e
                      /\ IF ShouldRetry(attempt)
                         THEN /\ pc' = "sleep"
                              /\ stdout' = stdout \o lines
                              /\ UNCHANGED <<result, err, exitErr, formatCalls>>
                         ELSE Return("", e, lines)
             ELSE LET r == MistralResult(o)
                      lines == (IF o.kind = "resp"
                                THEN DebugLine(provider, "response", attempt, o)
                                ELSE <<>>)
                               \o (IF r.err = nil
                                   THEN DebugLine(provider, "success", attempt, o)
                                   ELSE <<>>)
                  IN  /\ Return(r.result, r.err, lines)
                      /\ UNCHANGED lastErr
    /\ UNCHANGED listVars
    /\ UNCHANGED <<mode, flags, env, dotenv, warnings, inputs, provider, ctx,
                   generateCalls, attempt, httpCalls, requests>>

\* time.Sleep(mistralRetryDelay) is over: continue with the next attempt
MistralRetry ==
    /\ pc = "sleep"
    /\ provider.name = "mistral"
    /\ attempt' = attempt + 1
    /\ Send(MistralPayload(provider, inputs.Prompt),
            DebugLine(provider, "send", attempt + 1, NetErr("")))
    /\ UNCHANGED listVars
    /\ UNCHANGED <<mode, flags, env, dotenv, warnings, inputs, provider, ctx,
                   generateCalls, outcomes, lastErr>>

\* the caller cancels the context, or its deadline passes
CancelCtx ==
    /\ mode = "direct"
    /\ pc \in {"generate", "inflight", "sleep"}
    /\ ctx.err = ""
    /\ \E e \in {ErrCanceled, ErrDeadline} :
          ctx' = [err |-> e, during |-> pc, call |-> httpCalls]
    /\ UNCHANGED listVars
    /\ UNCHANGED <<mode, pc, flags, env, dotenv, warnings, inputs, provider,
                   generateCalls, attempt, httpCalls, requests, outcomes, lastErr,
                   result, err, stdout, exitErr, formatCalls>>

Next ==
    \/ CmdParseInputs
    \/ CmdGetProvider
    \/ CmdValidateCapabilities
    \/ OpenAIGenerate
    \/ OpenAIRespond
    \/ DeepSeekGenerate
    \/ DeepSeekRespond
    \/ MistralGenerate
    \/ MistralRespond
    \/ MistralRetry
    \/ CancelCtx

Spec == Init /\ [][Next]_vars

\* The steps of the program itself: http.Client.Timeout ends every exchange
\* and time.Sleep returns, so none of them waits forever.
ProgramStep ==
    \/ CmdParseInputs
    \/ CmdGetProvider
    \/ CmdValidateCapabilities
    \/ OpenAIGenerate
    \/ OpenAIRespond
    \/ DeepSeekGenerate
    \/ DeepSeekRespond
    \/ MistralGenerate
    \/ MistralRespond
    \/ MistralRetry

FairSpec == Init /\ [][Next]_vars /\ WF_vars(ProgramStep)

(***************************************************************************)
(* The models command (modelsCmd.RunE) and a direct call of ListModels     *)
(***************************************************************************)
getAPIKeyForProvider(name, e) ==
    CASE name = "openai" ->
            IF e["OPENAI_API_KEY"] = ""
            THEN [key |-> "",
                  err |-> Error("apikey", 0, "OPENAI_API_KEY not found in environment", "")]
            ELSE [key |-> e["OPENAI_API_KEY"], err |-> nil]
      [] name = "deepseek" ->
            IF e["DEEPSEEK_API_KEY"] = ""
            THEN [key |-> "",
                  err |-> Error("apikey", 0, "DEEPSEEK_API_KEY not found in environment", "")]
            ELSE [key |-> e["DEEPSEEK_API_KEY"], err |-> nil]
      [] OTHER -> [key |-> "", err |-> Error("unsupported", 0, "unsupported provider", "")]

getModelLister(name, apiKey) ==
    CASE name = "openai" -> [lister |-> NewOpenAI(Config(apiKey, 0, "", FALSE)), err |-> nil]
      [] name = "deepseek" ->
            [lister |-> NewDeepSeek(Config(apiKey, 0, "", FALSE)), err |-> nil]
      [] OTHER -> [lister |-> NoProvider,
                   err |-> Error("unsupported", 0, "unsupported provider", "")]

\* m[k] = v
Put(m, k, v) == [x \in DOMAIN m \cup {k} |-> IF x = k THEN v ELSE m[x]]

\* the loop body storing the models whether or not ListModels failed
StoreListedAlways(m, name, r) == Put(m, name, r.models)

\* if err != nil { ...; continue }; providerModels[provider] = models
StoreListed(m, name, r) == IF r.err # nil THEN m ELSE Put(m, name, r.models)

truncate(s, length) ==
    IF Len(s) > length THEN SubSeq(s, 1, length - 3) \o "..." ELSE s

\* printProviderTable: the title line and one row per model
ProviderTable(name, ms) ==
    [type |-> "table",
     title |-> Title(name) \o " Models:",
     rows |-> [i \in 1..Len(ms) |->
                 [ID |-> truncate(ms[i].ID, 20),
                  Description |-> truncate(ms[i].Description, 20),
                  ContextWindow |-> ms[i].ContextWindow,
                  SupportsVision |-> ms[i].SupportsVision]]]

\* the orders in which a range over a map with key set S can visit it
MapOrders(S) ==
    {o \in [1..Cardinality(S) -> S] : \A i, j \in DOMAIN o : o[i] = o[j] => i = j}

\* the variables of the generate command, which the models command never touches
generateVars ==
    <<flags, dotenv, warnings, inputs, ctx, generateCalls, attempt, lastErr, result,
      formatCalls>>

\* godotenv.Load and the default provider list
ModelsStart ==
    /\ mode = "models"
    /\ pc = "models"
    /\ modelsProvider' = IF Len(modelsProvider) = 0
                         THEN <<"openai", "deepseek">>
                         ELSE modelsProvider
    /\ idx' = 1
    /\ pc' = "list"
    /\ UNCHANGED generateVars
    /\ UNCHANGED <<mode, env, provider, httpCalls, requests, outcomes, err, stdout,
                   exitErr, modelsJson, providerModels, errs, stderr, models>>

\* one pass of the loop over modelsProvider
ModelsListProvider ==
    /\ mode = "models"
    /\ pc = "list"
    /\ LET name == ToLower(modelsProvider[idx])
           k == getAPIKeyForProvider(name, env)
           l == getModelLister(name, k.key)
       IN  IF k.err # nil
           THEN /\ errs' = Append(errs, Wrap(name, k.err))
                /\ UNCHANGED <<provider, httpCalls, requests, outcomes, providerModels>>
           ELSE IF l.err # nil
           THEN /\ errs' = Append(errs, Wrap(name, l.err))
                /\ UNCHANGED <<provider, httpCalls, requests, outcomes, providerModels>>
           ELSE \E o \in ListOutcomes :
                   LET r == ListModels(l.lister, o)
                   IN  /\ provider' = l.lister
                       /\ httpCalls' = httpCalls + 1
                       /\ requests' = Append(requests, ModelsRequest(l.lister))
                       /\ outcomes' = Append(outcomes, o)
                       /\ errs' = IF r.err # nil
                                  THEN Append(errs, Wrap(name, r.err))
                                  ELSE errs
                       /\ providerModels' = StoreListed(providerModels, name, r)
    /\ idx' = idx + 1
    /\ pc' = IF idx < Len(modelsProvider) THEN "list" ELSE "print"
    /\ UNCHANGED generateVars
    /\ UNCHANGED <<mode, env, err, stdout, exitErr, modelsProvider, modelsJson,
                   stderr, models>>

\* the errors are logged, the map is printed, RunE returns nil
ModelsPrint ==
    /\ mode = "models"
    /\ pc = "print"
    /\ stderr' = stderr \o [i \in 1..Len(errs) |-> [type |-> "log", err |-> errs[i]]]
    /\ IF modelsJson
       THEN stdout' = Append(stdout, [type |-> "json", value |-> providerModels])
       ELSE \E order \in MapOrders(DOMAIN providerModels) :
               stdout' = stdout \o [i \in 1..Len(order) |->
                                      ProviderTable(order[i], providerModels[order[i]])]
    /\ exitErr' = nil
    /\ pc' = "done"
    /\ UNCHANGED generateVars
    /\ UNCHANGED <<mode, env, provider, httpCalls, requests, outcomes, err,
                   modelsProvider, modelsJson, idx, providerModels, errs, models>>

\* provider.ListModels(ctx) called by a library caller
CallListModels ==
    /\ mode = "list"
    /\ pc = "listmodels"
    /\ \E o \in ListOutcomes :
          LET r == ListModels(provider, o)
          IN  /\ httpCalls' = httpCalls + 1
              /\ requests' = Append(requests, ModelsRequest(provider))
              /\ outcomes' = Append(outcomes, o)
              /\ models' = r.models
              /\ err' = r.err
    /\ pc' = "done"
    /\ UNCHANGED generateVars
    /\ UNCHANGED <<mode, env, provider, stdout, exitErr, modelsProvider, modelsJson,
                   idx, providerModels, errs, stderr>>

ModelsNext ==
    \/ ModelsStart
    \/ ModelsListProvider
    \/ ModelsPrint
    \/ CallListModels

ModelsSpec == ModelsInit /\ [][ModelsNext]_vars

(***************************************************************************)
(* Properties                                                              *)
(***************************************************************************)
Done == pc = "done"

IsMistral == provider.name = "mistral"

\* every exchange so far ended in a transport-level failure
AllTransportFailures == \A i \in 1..Len(outcomes) : outcomes[i].kind = "neterr"

\* a body in the chat-completion shape: an object whose "choices" is an
\* array of {"message": {"content": <string>}} objects
HasChoices(raw) ==
    LET j == ParseJSON(raw)
    IN  /\ j.t = "obj"
        /\ "choices" \in DOMAIN j.o
        /\ j.o["choices"].t = "arr"
        /\ \A i \in 1..Len(j.o["choices"].a) :
              LET c == j.o["choices"].a[i]
              IN  /\ c.t = "obj"
                  /\ "message" \in DOMAIN c.o
                  /\ c.o["message"].t = "obj"
                  /\ "content" \in DOMAIN c.o["message"].o
                  /\ c.o["message"].o["content"].t = "str"

NumChoices(raw) == Len(ParseJSON(raw).o["choices"].a)

FirstChoiceContent(raw) == ParseJSON(raw).o["choices"].a[1].o["message"].o["content"].s

\* C1: a provider without vision support (DeepSeek, Mistral) given a
\* non-empty image list makes no HTTP request: Generate, when called,
\* returns an error and an empty result, and the generate command stops at
\* validateCapabilities without ever invoking Provider.Generate.
C1_NoVisionNoRequest ==
    (/\ provider # NoProvider
     /\ ~Supports(provider, FeatureVision)
     /\ Len(inputs.Images) > 0)
    => /\ provider.name \in {"deepseek", "mistral"}
       /\ httpCalls = 0
       /\ requests = <<>>
       /\ generateCalls > 0 => (Done /\ err # nil /\ result = "")
       /\ mode = "cli" => generateCalls = 0
       /\ (mode = "cli" /\ pc \notin {"capcheck"})
             => (Done /\ err.kind = "capability" /\ err # nil)

C1_Witness ==
    /\ mode = "direct"
    /\ IsMistral
    /\ Len(inputs.Images) = 2
    /\ generateCalls = 1
    /\ Done
    /\ err.kind = "capability"
    /\ httpCalls = 0

\* C2: when every exchange of a Mistral Generate fails at the transport
\* level, Generate makes exactly mistralMaxRetries (2) attempts and returns
\* the transport error of the last one; the loop never makes more than 2
\* attempts, and a call that has begun always returns.
C2_Bounded ==
    IsMistral
    => /\ attempt <= 2
       /\ httpCalls <= 2
       /\ httpCalls = attempt
       /\ (Done /\ generateCalls = 1 /\ outcomes # <<>> /\ AllTransportFailures)
             => /\ attempt = 2
                /\ Len(outcomes) = 2
                /\ result = ""
                /\ err = Error("request", 0, "API request failed", outcomes[2].cause)

C2_AlwaysFailing ==
    /\ []C2_Bounded
    /\ (IsMistral /\ pc \in {"generate", "inflight", "sleep"}) ~> Done

C2_Witness ==
    /\ IsMistral
    /\ Done
    /\ Len(outcomes) = 2
    /\ outcomes[1] = NetErr("connection refused")
    /\ outcomes[2] = NetErr("Client.Timeout exceeded")
    /\ err.cause = "Client.Timeout exceeded"

\* C3: a Mistral Generate whose first exchange fails at the transport level
\* and whose second returns 200 with a body holding at least one choice
\* returns that body's first-choice content and no error, after exactly 2
\* attempts.
C3_FailThenSucceed ==
    (/\ IsMistral
     /\ Done
     /\ Len(outcomes) >= 2
     /\ outcomes[1].kind = "neterr"
     /\ outcomes[2].kind = "resp"
     /\ outcomes[2].status = 200
     /\ HasChoices(outcomes[2].body)
     /\ NumChoices(outcomes[2].body) >= 1)
    => /\ result = FirstChoiceContent(outcomes[2].body)
       /\ err = nil
       /\ attempt = 2
       /\ httpCalls = 2
       /\ Len(outcomes) = 2

C3_Witness ==
    /\ IsMistral
    /\ Done
    /\ Len(outcomes) = 2
    /\ outcomes[1].kind = "neterr"
    /\ outcomes[2] = Resp(200, BodyTwo)
    /\ result = "first"
    /\ err = nil

\* C4: in the Mistral loop a further attempt starts only after the current
\* one ended in a transport-level failure and fewer than mistralMaxRetries
\* attempts were made; an attempt that got an HTTP response (200 or not,
\* decodable or not, with or without choices) ends the call, so HTTP 400 on
\* the first attempt means exactly 1 attempt.
C4_ResponseIsTerminal ==
    IsMistral =>
        \A i \in 1..Len(outcomes) :
            outcomes[i].kind # "neterr"
            => (i = Len(outcomes) /\ httpCalls = i /\ attempt = i /\ Done)

C4_NextAttempt ==
    (IsMistral /\ httpCalls >= 1 /\ httpCalls' = httpCalls + 1)
    => /\ Len(outcomes) = httpCalls
       /\ outcomes[httpCalls].kind = "neterr"
       /\ attempt < mistralMaxRetries
       /\ attempt' = attempt + 1

C4_RetryOnlyOnTransportFailure == []C4_ResponseIsTerminal /\ [][C4_NextAttempt]_vars

C4_Witness ==
    /\ IsMistral
    /\ Done
    /\ Len(outcomes) = 2
    /\ outcomes[1].kind = "neterr"
    /\ outcomes[2].kind = "resp"
    /\ outcomes[2].status = 400
    /\ httpCalls = 2

\* the last exchange, once there is one
LastOutcome == outcomes[Len(outcomes)]

GotResponse == Done /\ outcomes # <<>> /\ LastOutcome.kind = "resp"

\* C5: a context cancelled (or past its deadline) while a request is in
\* flight aborts the request: Generate returns an error carrying the
\* context's error, not an API error, and no further attempt is made.
C5_CancelAborts ==
    (mode = "direct" /\ ctx.err # "" /\ ctx.during = "inflight")
    => /\ httpCalls = ctx.call
       /\ Done => (result = "" /\ err.kind # "api" /\ err.cause = ctx.err)

\* C6: in the generate command the API key is the --apikey flag when it is
\* non-empty, else the provider's environment variable when that is
\* non-empty; with no key, or a provider name outside openai/deepseek/
\* mistral, getProvider fails: no provider is built and no HTTP call made.
KnownProviders == {"openai", "deepseek", "mistral"}

EnvVarOf(name) ==
    CASE name = "openai" -> "OPENAI_API_KEY"
      [] name = "deepseek" -> "DEEPSEEK_API_KEY"
      [] OTHER -> "MISTRAL_API_KEY"

ResolvedKey ==
    IF flags.apiKeyFlag # "" THEN flags.apiKeyFlag
    ELSE IF flags.providerFlag \in KnownProviders THEN env[EnvVarOf(flags.providerFlag)]
    ELSE ""

GetProviderRan ==
    /\ mode = "cli"
    /\ pc \notin {"parse", "select"}
    /\ \A i \in 1..Len(flags.imagesFlag) : FileExists(flags.imagesFlag[i])

C6_KeyResolution ==
    GetProviderRan
    => IF flags.providerFlag \in KnownProviders /\ ResolvedKey # ""
       THEN /\ provider.name = flags.providerFlag
            /\ provider.config.APIKey = ResolvedKey
            /\ \A i \in 1..Len(requests) :
                  requests[i].authorization = "Bearer " \o ResolvedKey
       ELSE /\ provider = NoProvider
            /\ Done
            /\ err # nil
            /\ HasPrefix(err.msg, "provider setup failed: ")
            /\ httpCalls = 0
            /\ generateCalls = 0

C6_Witness ==
    /\ GetProviderRan
    /\ flags.providerFlag = "mistral"
    /\ flags.apiKeyFlag = ""
    /\ env["MISTRAL_API_KEY"] = ""
    /\ env["OPENAI_API_KEY"] # ""
    /\ Done
    /\ provider = NoProvider
    /\ err.kind = "apikey"

\* C7: an OpenAI Generate with N >= 1 images sends one request with a single
\* user message whose content is an array of N+1 blocks: first the text
\* block with the prompt, then one image_url block per attachment in input
\* order, each URL starting with data:image/<mime>;base64, where <mime> is
\* png for .png, gif for .gif, jpeg for .jpg/.jpeg and for anything else.
MimeOf(filename) ==
    IF HasSuffix(filename, ".png") THEN "png"
    ELSE IF HasSuffix(filename, ".gif") THEN "gif"
    ELSE "jpeg"

C7_VisionContent ==
    (provider.name = "openai" /\ requests # <<>> /\ Len(inputs.Images) >= 1)
    => LET N == Len(inputs.Images)
           r == requests[1]
       IN  /\ Len(requests) = 1
           /\ r.role = "user"
           /\ r.content.kind = "array"
           /\ Len(r.content.parts) = N + 1
           /\ r.content.parts[1].type = "text"
           /\ r.content.parts[1].text = inputs.Prompt
           /\ \A i \in 1..N :
                 LET img == inputs.Images[i]
                     prefix == "data:image/" \o MimeOf(img.Filename) \o ";base64,"
                     block == r.content.parts[i + 1]
                 IN  /\ block.type = "image_url"
                     /\ HasPrefix(block.url, prefix)
                     /\ Len(block.url) = Len(prefix) + 4 * ((Len(img.Data) + 2) \div 3)

C7_Witness ==
    /\ provider.name = "openai"
    /\ Len(requests) = 1
    /\ Len(inputs.Images) = 2
    /\ inputs.Images[1].Filename = "d.gif"
    /\ inputs.Images[2].Filename = "notes"
    /\ requests[1].content.parts[2].url = "data:image/gif;base64,/wAQgw=="
    /\ HasPrefix(requests[1].content.parts[3].url, "data:image/jpeg;base64,")

\* C8: for each provider a 200 response with a non-empty choices array
\* gives the first choice's message content and no error; a 200 response
\* with an empty choices array gives an error and an empty result.
C8_FirstChoice ==
    (GotResponse /\ LastOutcome.status = 200 /\ HasChoices(LastOutcome.body))
    => IF NumChoices(LastOutcome.body) >= 1
       THEN result = FirstChoiceContent(LastOutcome.body) /\ err = nil
       ELSE result = "" /\ err # nil /\ err.kind = "empty"

C8_Witness ==
    /\ GotResponse
    /\ provider.name = "deepseek"
    /\ LastOutcome = Resp(200, BodyTwo)
    /\ result = "first"
    /\ err = nil

\* the message of the provider's error envelope ("" when the body has none):
\* {"error":{"message":m}} for OpenAI, {"message":m} for DeepSeek and Mistral
EnvelopeMessage(name, raw) ==
    LET j == ParseJSON(raw)
        holder == IF name # "openai" THEN j
                  ELSE IF j.t = "obj" /\ "error" \in DOMAIN j.o THEN j.o["error"]
                  ELSE JNull
    IN  IF /\ holder.t = "obj"
           /\ "message" \in DOMAIN holder.o
           /\ holder.o["message"].t = "str"
        THEN holder.o["message"].s
        ELSE ""

ExpectedAPIError(name, o) ==
    Error("api", o.status,
          IF EnvelopeMessage(name, o.body) # "" THEN EnvelopeMessage(name, o.body)
          ELSE o.body,
          "")

\* C9 as stated: a non-2xx response ends the call with an API error whose
\* message is the envelope's message when the body holds a non-empty one and
\* the raw body otherwise; a 2xx response is never reported as an API error.
C9_Non2xxIsAPIError ==
    GotResponse
    => IF LastOutcome.status \in 200..299
       THEN err.kind # "api"
       ELSE /\ err = ExpectedAPIError(provider.name, LastOutcome)
            /\ result = ""
            /\ Len(outcomes) = httpCalls

\* C9, amended: a response whose status is not 200 ends the call with an
\* API error whose message is the envelope's message when the body holds a
\* non-empty one and the raw body otherwise; a 200 response is never
\* reported as an API error.
C9_Non200IsAPIError ==
    GotResponse
    => IF LastOutcome.status = 200
       THEN err.kind # "api"
       ELSE /\ err = ExpectedAPIError(provider.name, LastOutcome)
            /\ result = ""
            /\ Len(outcomes) = httpCalls

C9_Witness ==
    /\ GotResponse
    /\ provider.name = "openai"
    /\ LastOutcome = Resp(201, BodyHello)
    /\ err = Error("api", 201, BodyHello, "")

\* C10: an OpenAI request carrying images names the fixed vision model
\* whatever Config.Model is; one without images names Config.Model when it
\* is non-empty and the default text model otherwise.
C10_ModelChoice ==
    provider.name = "openai"
    => \A i \in 1..Len(requests) :
          requests[i].model =
              IF Len(inputs.Images) > 0 THEN "gpt-4o-mini"
              ELSE IF provider.config.Model # "" THEN provider.config.Model
              ELSE "gpt-4"

C10_Witness ==
    /\ provider.name = "openai"
    /\ provider.config.Model = "my-model"
    /\ Len(inputs.Images) = 1
    /\ Len(requests) = 1
    /\ requests[1].model = "gpt-4o-mini"

(***************************************************************************)
(* The models command                                                      *)
(***************************************************************************)
\* passes of modelsCmd's loop already made
Processed == idx - 1

\* the /models bodies that decode into either provider's response struct
DecodableListBodies == ListBodies \ {BodyDataString, BodyHTML}

\* What the first n passes must have left: the names of the failed passes in
\* order, the names listed, and the exchanges made.  A pass gets as far as
\* ListModels for a provider the command knows whose key is set, and lists
\* it when the exchange ends in a 200 response with a decodable body.
RECURSIVE PassesUpTo(_)
PassesUpTo(n) ==
    IF n = 0 THEN [failed |-> <<>>, listed |-> {}, calls |-> 0]
    ELSE LET before == PassesUpTo(n - 1)
             name == ToLower(modelsProvider[n])
             callable == name \in {"openai", "deepseek"} /\ env[EnvVarOf(name)] # ""
             calls == IF callable THEN before.calls + 1 ELSE before.calls
             succeeded == /\ callable
                          /\ outcomes[calls].kind = "resp"
                          /\ outcomes[calls].status = 200
                          /\ outcomes[calls].body \in DecodableListBodies
         IN  [failed |-> IF succeeded THEN before.failed ELSE Append(before.failed, name),
              listed |-> IF succeeded THEN before.listed \cup {name} ELSE before.listed,
              calls |-> calls]

\* C11: in the models command a pass that fails (missing key, unsupported
\* name, ListModels error) adds one error carrying its provider's name and
\* the loop goes on: when the loop is over every requested provider has been
\* processed, there is one error per failed pass, in order, and the map's
\* keys are exactly the providers with a pass whose listing succeeded.
C11_PerProviderErrors ==
    (mode = "models" /\ pc \in {"list", "print", "done"}) =>
        LET passes == PassesUpTo(Processed)
        IN  /\ pc \in {"print", "done"} <=> Processed = Len(modelsProvider)
            /\ httpCalls = passes.calls
            /\ Len(errs) = Len(passes.failed)
            /\ \A k \in 1..Len(errs) : HasPrefix(errs[k].msg, passes.failed[k] \o ": ")
            /\ DOMAIN providerModels = passes.listed

\* the first of two requested providers failed and the second was listed
C11_Witness ==
    /\ mode = "models"
    /\ pc = "done"
    /\ Len(modelsProvider) = 2
    /\ PassesUpTo(1).failed = <<ToLower(modelsProvider[1])>>
    /\ PassesUpTo(2).listed = {ToLower(modelsProvider[2])}
    /\ Len(errs) = 1
    /\ DOMAIN providerModels = {ToLower(modelsProvider[2])}
    /\ Len(providerModels[ToLower(modelsProvider[2])]) > 0

(***************************************************************************)
(* Timeouts                                                                *)
(***************************************************************************)
\* C12: the timeout of a constructed provider's HTTP client is the
\* Config.Timeout it was built with when that is set, and 30 seconds when
\* it is zero.
C12_ClientTimeout ==
    provider # NoProvider =>
        provider.clientTimeout =
            IF provider.config.Timeout = 0 THEN 30 ELSE provider.config.Timeout

(***************************************************************************)
(* Debug tracing                                                           *)
(***************************************************************************)
DebugLines == {i \in 1..Len(stdout) : stdout[i].type = "debug"}

\* the characters of the key a masked form shows: none for "****", else
\* what stands before and after the dots
Shown(masked) ==
    IF masked = "****" THEN ""
    ELSE SubSeq(masked, 1, 4) \o SubSeq(masked, 8, Len(masked))

\* C13: no [DEBUG] line lets the whole API key be read: the masked form it
\* carries shows fewer characters than the key has.
C13_KeyNeverInFull ==
    \A i \in DebugLines :
        provider.config.APIKey # "" =>
            Len(Shown(stdout[i].apikey)) < Len(provider.config.APIKey)

(***************************************************************************)
(* Model listing                                                           *)
(***************************************************************************)
\* ListModels has just returned a list: the last exchange of the run ended
\* in a 200 response whose body decodes, to a direct caller or to modelsCmd
JustListed ==
    /\ mode \in {"list", "models"}
    /\ provider # NoProvider
    /\ Len(outcomes) > 0
    /\ outcomes[Len(outcomes)].kind = "resp"
    /\ outcomes[Len(outcomes)].status = 200
    /\ outcomes[Len(outcomes)].body \in DecodableListBodies

\* the list it returned
Listed == IF mode = "list" THEN models ELSE providerModels[provider.name]

\* the entries of the "data" array it was given
ListedEntries == DataArray(ParseJSON(outcomes[Len(outcomes)].body))

\* C14: a ListModels call given a decodable 200 body does not fail, whatever
\* fields its entries lack, and every Model it returns has a non-zero
\* ContextWindow and a non-empty Description.
C14_DefaultsForMissingFields ==
    JustListed =>
        /\ mode = "list" => err = nil
        /\ Len(Listed) = Len(ListedEntries)
        /\ \A i \in 1..Len(Listed) :
              Listed[i].ContextWindow > 0 /\ Listed[i].Description # ""

\* C15: for OpenAI the context window of an id is 128000 if it contains
\* "128k", else 32000 if it contains "32k", else 16000 if it contains "16k",
\* else 4096, and the vision flag is true iff the id contains "vision" or
\* "gpt-4o"; for DeepSeek the ContextWindow is the entry's
\* capabilities.context_length and SupportsVision is false.
C15_ListMapping ==
    JustListed =>
        /\ Len(Listed) = Len(ListedEntries)
        /\ \A i \in 1..Len(Listed) :
              LET id == StringOf(Field(ListedEntries[i], "id"))
                  m == Listed[i]
              IN  /\ m.ID = id
                  /\ provider.name = "openai" =>
                        /\ m.ContextWindow =
                              (CASE Contains(id, "128k") -> 128000
                                 [] ~Contains(id, "128k") /\ Contains(id, "32k") -> 32000
                                 [] ~Contains(id, "128k") /\ ~Contains(id, "32k")
                                      /\ Contains(id, "16k") -> 16000
                                 [] OTHER -> 4096)
                        /\ m.SupportsVision <=>
                              (Contains(id, "vision") \/ Contains(id, "gpt-4o"))
                        /\ id = "gpt-4o-mini-128k" =>
                              m.ContextWindow = 128000 /\ m.SupportsVision
                  /\ provider.name = "deepseek" =>
                        /\ m.ContextWindow =
                              IntOf(Field(Field(ListedEntries[i], "capabilities"),
                                          "context_length"))
                        /\ ~m.SupportsVision

\* OpenAI listed the six ids of BodyOpenAIModels
C15_Witness ==
    /\ JustListed
    /\ mode = "list"
    /\ provider.name = "openai"
    /\ [i \in 1..Len(models) |->
          <<models[i].ID, models[i].ContextWindow, models[i].SupportsVision>>]
         = << <<"gpt-4o-mini-128k", 128000, TRUE>>, <<"gpt-4-32k", 32000, FALSE>>,
              <<"gpt-3.5-turbo-16k", 16000, FALSE>>,
              <<"gpt-4-vision-preview", 4096, TRUE>>, <<"gpt-4o", 4096, TRUE>>,
              <<"gpt-4", 4096, FALSE>> >>

\* DeepSeek listed an entry with its capabilities
C15_WitnessDeepSeek ==
    /\ JustListed
    /\ mode = "models"
    /\ provider.name = "deepseek"
    /\ outcomes[Len(outcomes)].body = BodyDeepSeekModels
    /\ providerModels["deepseek"][1].ContextWindow = 64000

(***************************************************************************)
(* One request per Generate (OpenAI, DeepSeek)                             *)
(***************************************************************************)
\* Generate went past the provider's capability check
PastCapabilityCheck ==
    /\ generateCalls = 1
    /\ provider.name = "openai" \/ (provider.name = "deepseek" /\ Len(inputs.Images) = 0)

\* the exchange gave a 200 response with a decodable body and a choice in it
Answered(o) ==
    /\ o.kind = "resp"
    /\ o.status = 200
    /\ HasChoices(o.body)
    /\ NumChoices(o.body) >= 1

\* C16: an OpenAI or DeepSeek Generate call that passes the capability
\* check hands exactly one request to the HTTP client: never a second one
\* while it runs, and exactly one when it has returned; a transport
\* failure, a non-200 status, an undecodable body or an empty choices list
\* comes back as an error with an empty result.
C16_SingleRequest ==
    provider.name \in {"openai", "deepseek"} =>
        /\ httpCalls <= 1
        /\ Len(requests) = httpCalls
        /\ (PastCapabilityCheck /\ Done) =>
              /\ httpCalls = 1
              /\ Len(outcomes) = 1
              /\ ~Answered(outcomes[1]) => (err # nil /\ result = "")

\* an OpenAI vision request that failed in transport and was not sent again
C16_Witness ==
    /\ Done
    /\ PastCapabilityCheck
    /\ provider.name = "openai"
    /\ Len(inputs.Images) > 0
    /\ outcomes = <<NetErr("connection refused")>>
    /\ httpCalls = 1
    /\ err.kind = "request"

(***************************************************************************)
(* Mistral with and without Config.Debug                                   *)
(***************************************************************************)
\* Mistral's text path is running or has returned
MistralTextRun == IsMistral /\ generateCalls = 1 /\ Len(inputs.Images) = 0

\* the request of every attempt, written without reading Config.Debug
UntracedRequest ==
    [method |-> "POST",
     url |-> mistralBaseURL \o "/chat/completions",
     authorization |-> "Bearer " \o provider.config.APIKey,
     model |-> IF provider.config.Model # "" THEN provider.config.Model
               ELSE mistralDefaultModel,
     role |-> "user",
     content |-> TextContent(inputs.Prompt),
     max_tokens |-> 1000]

\* what Generate returns after the exchanges in outcomes, written without
\* reading Config.Debug
UntracedReturn ==
    IF LastOutcome.kind = "neterr"
    THEN Ret("", Error("request", 0, "API request failed", LastOutcome.cause))
    ELSE MistralResult(LastOutcome)

\* C17: the course of Mistral's Generate is a function of the transport
\* outcomes alone, the same whether Config.Debug is true or false: the run
\* is over exactly when an exchange gave a response or the second one
\* failed, the attempts made and requests sent are those of the untraced
\* run, and so are the result and error returned; tracing only adds
\* [DEBUG] lines, and only when Config.Debug is true.
C17_DebugSameControlFlow ==
    MistralTextRun =>
        LET n == Len(outcomes)
        IN  /\ \A i \in 1..(n - 1) : outcomes[i].kind = "neterr"
            /\ Done <=> (n >= 1 /\ (LastOutcome.kind # "neterr" \/ n = 2))
            /\ pc \in {"inflight", "sleep", "done"}
            /\ attempt = IF pc = "inflight" THEN n + 1 ELSE n
            /\ httpCalls = attempt
            /\ requests = [i \in 1..attempt |-> UntracedRequest]
            /\ Done => /\ result = UntracedReturn.result
                       /\ err = UntracedReturn.err
            /\ ~provider.config.Debug => DebugLines = {}
            /\ provider.config.Debug => Cardinality(DebugLines) >= attempt

\* a traced run that failed, slept, tried again and was answered
C17_Witness ==
    /\ MistralTextRun
    /\ Done
    /\ provider.config.Debug
    /\ Len(outcomes) = 2
    /\ outcomes[1].kind = "neterr"
    /\ outcomes[2] = Resp(200, BodyHello)
    /\ result = "hello"
    /\ Cardinality(DebugLines) = 5

(***************************************************************************)
(* The stages of the generate command                                      *)
(***************************************************************************)
\* how many of parseInputs, getProvider, validateCapabilities succeed on
\* the run's flags and environment, counted up to the first that fails
StagesPassed ==
    LET parsed == parseInputs(flags)
        selected == getProvider(flags.providerFlag, flags.apiKeyFlag, env, flags.debugFlag)
    IN  IF parsed.err # nil THEN 0
        ELSE IF selected.err # nil THEN 1
        ELSE IF validateCapabilities(selected.provider, parsed.inputs) # nil THEN 2
        ELSE 3

\* C18: generateCmd runs parseInputs, getProvider, validateCapabilities,
\* Provider.Generate and formatOutput in that order: each stage is reached
\* only when the ones before it succeeded, Provider.Generate is invoked
\* (once) only after all three, a failing stage leaves every later stage
\* undone, and formatOutput is called exactly once, at the end.
C18_StageOrder ==
    mode = "cli" =>
        /\ pc = "parse" => (provider = NoProvider /\ generateCalls = 0)
        /\ pc = "select" => (StagesPassed >= 1 /\ provider = NoProvider /\ generateCalls = 0)
        /\ pc = "capcheck" =>
              (StagesPassed >= 2 /\ provider # NoProvider /\ generateCalls = 0)
        /\ pc \in {"generate", "inflight", "sleep"} => StagesPassed = 3
        /\ generateCalls = IF StagesPassed = 3 /\ pc \notin {"parse", "select", "capcheck",
                                                              "generate"}
                           THEN 1 ELSE 0
        /\ formatCalls = IF Done THEN 1 ELSE 0
        /\ Done =>
              /\ StagesPassed < 3 => (err # nil /\ httpCalls = 0 /\ result = "")
              /\ StagesPassed < 2 => provider = NoProvider
              /\ StagesPassed = 0 => inputs = Inputs("", <<>>)

\* the capability check failed: no Generate, one formatOutput
C18_Witness ==
    /\ mode = "cli"
    /\ Done
    /\ StagesPassed = 2
    /\ provider # NoProvider
    /\ generateCalls = 0
    /\ formatCalls = 1
    /\ err.kind = "capability"

\* all five stages ran
C18_WitnessAllStages ==
    /\ mode = "cli"
    /\ Done
    /\ StagesPassed = 3
    /\ generateCalls = 1
    /\ formatCalls = 1
    /\ err = nil

(***************************************************************************)
(* formatOutput                                                            *)
(***************************************************************************)
Envelopes == {i \in 1..Len(stdout) : stdout[i].type = "json"}

TextLines == {i \in 1..Len(stdout) : stdout[i].type = "text"}

\* C19: in JSON mode formatOutput prints exactly one envelope, whose
\* success is true iff the error is nil and whose error field is non-empty
\* only when the error is non-nil (it is then the error's text), and
\* returns nil; in non-JSON mode it returns the error and prints no content
\* when the error is non-nil, and prints the content and returns nil
\* otherwise.  Nothing of the kind is printed before formatOutput is called.
C19_FormatOutput ==
    mode = "cli" =>
        IF ~Done THEN Envelopes = {} /\ TextLines = {} /\ exitErr = nil
        ELSE IF flags.jsonOutput
        THEN /\ Cardinality(Envelopes) = 1
             /\ TextLines = {}
             /\ \A i \in Envelopes :
                   /\ stdout[i].Success <=> err = nil
                   /\ stdout[i].Error # "" => err # nil
                   /\ err # nil => stdout[i].Error = ErrorString(err)
                   /\ stdout[i].Content = result
                   /\ i = Len(stdout)
             /\ exitErr = nil
        ELSE /\ Envelopes = {}
             /\ IF err # nil
                THEN TextLines = {} /\ exitErr = err
                ELSE /\ Cardinality(TextLines) = 1
                     /\ stdout[Len(stdout)] = [type |-> "text", Content |-> result]
                     /\ exitErr = nil

\* a failed generate in JSON mode: one envelope with success false, exit nil
C19_Witness ==
    /\ mode = "cli"
    /\ Done
    /\ flags.jsonOutput
    /\ generateCalls = 1
    /\ err # nil
    /\ exitErr = nil
    /\ Cardinality(Envelopes) = 1
    /\ ~stdout[Len(stdout)].Success
    /\ stdout[Len(stdout)].Error # ""
====
